---- MODULE Spec2Model ----
(***************************************************************************)
(* LPEL stream core (src/stream.c): bounded single-producer/single-       *)
(* consumer streams, the blocking Read/Write protocol built on the two   *)
(* signed counters n_sem/e_sem, and LpelStreamPoll over a stream set.     *)
(*                                                                         *)
(* One consumer task owns the read descriptor of every stream; stream s   *)
(* has its own producer task.  A stream descriptor is identified with the *)
(* index of its stream.  Every atomic operation, lock operation, buffer   *)
(* operation and scheduler call of the source is one step, so that all    *)
(* interleavings of the tasks on parallel workers are explored.           *)
(***************************************************************************)
EXTENDS Integers, Sequences, FiniteSets, TLC

\* ---------------------------------------------------------------- bounds
NumStreams == 2
MaxCap == 2
MaxWrites == 3
LiveWrites == 2

Streams == 1..NumStreams
NULL == 0

VARIABLES
  size,          \* capacity handed to LpelStreamCreate (same for all streams)
  buffer,        \* buffer[s] = [data, pread, pwrite]
  n_sem, e_sem,  \* the two signed counters of each stream
  is_poll,       \* is_poll[s]
  prod_lock,     \* prod_lock[s] \in {"free", "prod", "cons"}
  poll_token,    \* consumer task: poll_token
  wakeup_sd,     \* consumer task: wakeup_sd (NULL or a descriptor)
  wake,          \* wake[t]: Unblock calls for task t not yet consumed by Block
  prod,          \* prod[s]: producer of s: [pc, item, poll_wakeup, blk, try, ret]
  cons,          \* consumer: [pc, sd, item, do_ctx_switch, cnt, blk, ret, op]
  iter,          \* the consumer's stream iterator: [prev, cur]
  members,       \* descriptors linked into the consumer's stream set
  set,           \* *set: the descriptor the set handle points to
  hist           \* history: written/read item sequences, poll bookkeeping

vars == <<size, buffer, n_sem, e_sem, is_poll, prod_lock, poll_token, wakeup_sd,
          wake, prod, cons, iter, members, set, hist>>

streamVars == <<buffer, n_sem, e_sem, is_poll, prod_lock>>

\* the consumer task; producer tasks are named by their stream
CONS == 0
Tasks == {CONS} \cup Streams

\* ------------------------------------------------- buffer (FastForward ring)
BufferInit(sz) == [data |-> [i \in 0..(sz - 1) |-> NULL], pread |-> 0, pwrite |-> 0]

BufferTop(buf) == buf.data[buf.pread]

BufferIsSpace(buf) == buf.data[buf.pwrite] = NULL

BufferPop(buf, sz) ==
  [buf EXCEPT !.data[buf.pread] = NULL, !.pread = (buf.pread + 1) % sz]

BufferPut(buf, item, sz) ==
  [buf EXCEPT !.data[buf.pwrite] = item, !.pwrite = (buf.pwrite + 1) % sz]

\* number of occupied slots
Filled(buf) == Cardinality({i \in DOMAIN buf.data : buf.data[i] # NULL})

\* ------------------------------------------------- stream set and iterator
\* successor of descriptor sd in the cyclic order of the set m
NextInSet(m, sd) ==
  IF \E x \in m : x > sd
    THEN CHOOSE x \in m : x > sd /\ \A y \in m : y > sd => x <= y
    ELSE CHOOSE x \in m : \A y \in m : x <= y

IterReset(st) == [prev |-> st, cur |-> NULL]

IterHasNext(it, st) == st # NULL /\ (it.cur # st \/ it.cur = NULL)

IterNext(it, m) ==
  IF it.cur # NULL
    THEN [prev |-> it.cur, cur |-> NextInSet(m, it.cur)]
    ELSE [prev |-> it.prev, cur |-> NextInSet(m, it.prev)]

\* ------------------------------------------------- scheduler interface
\* LpelTaskUnblock(by, t): one more wakeup is pending for task t
TaskUnblock(w, t) == [w EXCEPT ![t] = @ + 1]

\* LpelTaskBlock returns only when an Unblock for the task has been issued
TaskCanResume(w, t) == w[t] > 0

TaskResume(w, t) == [w EXCEPT ![t] = @ - 1]

\* ------------------------------------------------- initial state
IdleProd == [pc |-> "idle", item |-> NULL, poll_wakeup |-> 0, blk |-> FALSE,
             try |-> FALSE, ret |-> 0]

IdleCons == [pc |-> "idle", sd |-> NULL, item |-> NULL, do_ctx_switch |-> 1,
             cnt |-> 0, blk |-> FALSE, ret |-> NULL, op |-> "none"]

\* hist.afterPoll: the Read in progress was called right after LpelStreamPoll, on the
\* descriptor it returned
\* bookkeeping of the current LpelStreamPoll call
\*   nonempty  some stream of the set held an item when Poll was called
\*   broke     the scan left its loop through the break
\*   by        who swapped poll_token from 1 to 0: "cons", "prod" or "none"
\*   handed    a Write to a stream of the set has deposited its item and passed
\*             the is_poll test of its locked section since Poll was called
\*   first     the stream of the first such Write, when it came after a scan that
\*             found every stream empty
\*   wins      number of atomic swaps that found poll_token = 1
\*   winners   the tasks whose swap found poll_token = 1
\*   swappers  the producers that executed the swap in LpelStreamWrite
\*   setters   the tasks that assigned wakeup_sd
\*   wakers    the producers that called LpelTaskUnblock for the consumer
NoPoll == [nonempty |-> FALSE, broke |-> FALSE, by |-> "none", handed |-> FALSE,
           first |-> NULL, wins |-> 0, winners |-> {}, swappers |-> {},
           setters |-> {}, wakers |-> << >>]

HistInit == [written |-> [s \in Streams |-> << >>],
             read |-> [s \in Streams |-> << >>],
             budget |-> MaxWrites,
             failed |-> {},
             afterPoll |-> FALSE,
             poll |-> NoPoll]

\* LpelStreamCreate
StreamCreate ==
  /\ size \in 1..MaxCap
  /\ buffer = [s \in Streams |-> BufferInit(size)]
  /\ n_sem = [s \in Streams |-> 0]
  /\ e_sem = [s \in Streams |-> size]
  /\ is_poll = [s \in Streams |-> FALSE]
  /\ prod_lock = [s \in Streams |-> "free"]

Init ==
  /\ StreamCreate
  /\ poll_token = 0
  /\ wakeup_sd = NULL
  /\ wake = [t \in Tasks |-> 0]
  /\ prod = [s \in Streams |-> IdleProd]
  /\ cons = IdleCons
  /\ iter = IterReset(NULL)
  /\ members \in (SUBSET Streams) \ {{}}
  /\ set \in members
  /\ hist = HistInit

\* ------------------------------------------------- LpelStreamWrite
P(s) == prod[s]

\* the consumer is inside LpelStreamPoll
InPoll == cons.op = "Poll" /\ cons.pc # "idle"

\* the scan of the current Poll is over and found every stream of the set empty
ScannedAllEmpty == cons.pc \in {"p_ctx", "p_block"} /\ ~hist.poll.broke

AllEmpty == \A x \in members : BufferTop(buffer[x]) = NULL

Noted(h, what) == [h EXCEPT !.failed = @ \cup {what}]

\* a producer task calls LpelStreamWrite( sd, item)
CallWrite(s, item) ==
  /\ P(s).pc = "idle"
  /\ hist.budget > 0
  /\ prod' = [prod EXCEPT ![s] = [IdleProd EXCEPT !.pc = "w_P", !.item = item]]
  /\ hist' = [hist EXCEPT !.budget = @ - 1]
  /\ UNCHANGED <<size, streamVars, poll_token, wakeup_sd, wake, cons, iter, members, set>>

\* mutant: the slot is claimed in e_sem before the buffer is tested
CallTryWrite_ClaimFirst(s, item) ==
  /\ P(s).pc = "idle"
  /\ hist.budget > 0
  /\ IF ~BufferIsSpace(buffer[s])
       THEN /\ prod' = [prod EXCEPT ![s] = [IdleProd EXCEPT !.try = TRUE, !.ret = -1]]
            /\ e_sem' = [e_sem EXCEPT ![s] = @ - 1]
            /\ hist' = hist
       ELSE /\ prod' = [prod EXCEPT ![s] = [IdleProd EXCEPT !.pc = "w_P", !.item = item,
                                                            !.try = TRUE]]
            /\ e_sem' = e_sem
            /\ hist' = [hist EXCEPT !.budget = @ - 1]
  /\ UNCHANGED <<size, buffer, n_sem, is_poll, prod_lock, poll_token, wakeup_sd, wake, cons,
                 iter, members, set>>

\* LpelStreamTryWrite: -1 when the buffer has no space, else LpelStreamWrite
CallTryWrite(s, item) ==
  /\ P(s).pc = "idle"
  /\ hist.budget > 0
  /\ IF ~BufferIsSpace(buffer[s])
       THEN /\ prod' = [prod EXCEPT ![s] = [IdleProd EXCEPT !.try = TRUE, !.ret = -1]]
            /\ hist' = hist
       ELSE /\ prod' = [prod EXCEPT ![s] = [IdleProd EXCEPT !.pc = "w_P", !.item = item,
                                                            !.try = TRUE]]
            /\ hist' = [hist EXCEPT !.budget = @ - 1]
  /\ UNCHANGED <<size, streamVars, poll_token, wakeup_sd, wake, cons, iter, members, set>>

\* mutant: the test of the fetch_and_dec result is dropped, a full stream never blocks
Write_P_NoBlock(s) ==
  /\ P(s).pc = "w_P"
  /\ e_sem' = [e_sem EXCEPT ![s] = @ - 1]
  /\ prod' = [prod EXCEPT ![s].pc = "w_lock"]
  /\ UNCHANGED <<size, buffer, n_sem, is_poll, prod_lock, poll_token, wakeup_sd,
                 wake, cons, iter, members, set, hist>>

\* mutant: the result of fetch_and_dec is tested with < 0 in place of == 0
Write_P_TestNegative(s) ==
  /\ P(s).pc = "w_P"
  /\ e_sem' = [e_sem EXCEPT ![s] = @ - 1]
  /\ prod' = [prod EXCEPT ![s].pc = IF e_sem[s] < 0 THEN "w_block" ELSE "w_lock",
                          ![s].blk = (e_sem[s] < 0)]
  /\ UNCHANGED <<size, buffer, n_sem, is_poll, prod_lock, poll_token, wakeup_sd,
                 wake, cons, iter, members, set, hist>>

\* quasi P(e_sem): fetch_and_dec; the producer goes to LpelTaskBlock when it was 0
Write_P(s) ==
  /\ P(s).pc = "w_P"
  /\ e_sem' = [e_sem EXCEPT ![s] = @ - 1]
  /\ prod' = [prod EXCEPT ![s].pc = IF e_sem[s] = 0 THEN "w_block" ELSE "w_lock",
                          ![s].blk = (e_sem[s] = 0)]
  /\ UNCHANGED <<size, buffer, n_sem, is_poll, prod_lock, poll_token, wakeup_sd,
                 wake, cons, iter, members, set, hist>>

\* LpelTaskBlock( self, BLOCKED_ON_OUTPUT) returns
Write_Block(s) ==
  /\ P(s).pc = "w_block"
  /\ TaskCanResume(wake, s)
  /\ wake' = TaskResume(wake, s)
  /\ prod' = [prod EXCEPT ![s].pc = "w_lock"]
  /\ UNCHANGED <<size, streamVars, poll_token, wakeup_sd, cons, iter, members, set, hist>>

\* PRODLOCK_LOCK
Write_Lock(s) ==
  /\ P(s).pc = "w_lock"
  /\ prod_lock[s] = "free"
  /\ prod_lock' = [prod_lock EXCEPT ![s] = "prod"]
  /\ prod' = [prod EXCEPT ![s].pc = "w_put"]
  /\ UNCHANGED <<size, buffer, n_sem, e_sem, is_poll, poll_token, wakeup_sd, wake,
                 cons, iter, members, set, hist>>

\* assert( IsSpace); _LpelBufferPut
Write_Put(s) ==
  /\ P(s).pc = "w_put"
  /\ buffer' = [buffer EXCEPT ![s] = BufferPut(@, P(s).item, size)]
  /\ prod' = [prod EXCEPT ![s].pc = "w_poll"]
  /\ hist' = [(IF BufferIsSpace(buffer[s]) THEN hist ELSE Noted(hist, "IsSpace"))
                EXCEPT !.written[s] = Append(@, P(s).item)]
  /\ UNCHANGED <<size, n_sem, e_sem, is_poll, prod_lock, poll_token, wakeup_sd, wake,
                 cons, iter, members, set>>

\* mutant: the token is read but not taken (a read in place of the atomic swap)
Write_Poll_ReadOnly(s) ==
  /\ P(s).pc = "w_poll"
  /\ IF is_poll[s]
       THEN /\ is_poll' = [is_poll EXCEPT ![s] = FALSE]
            /\ prod' = [prod EXCEPT ![s].pc = "w_unlock", ![s].poll_wakeup = poll_token]
       ELSE /\ prod' = [prod EXCEPT ![s].pc = "w_unlock"]
            /\ is_poll' = is_poll
  /\ hist' = [hist EXCEPT
                !.poll.by = IF is_poll[s] /\ poll_token = 1 THEN "prod" ELSE @,
                !.poll.wins = IF is_poll[s] /\ poll_token = 1 THEN @ + 1 ELSE @,
                !.poll.winners = IF is_poll[s] /\ poll_token = 1 THEN @ \cup {s} ELSE @,
                !.poll.swappers = IF is_poll[s] THEN @ \cup {s} ELSE @]
  /\ UNCHANGED <<size, buffer, n_sem, e_sem, prod_lock, poll_token, wakeup_sd, wake, cons,
                 iter, members, set>>

\* if (is_poll) { poll_wakeup = atomic_swap( poll_token, 0); is_poll = 0; }
Write_Poll(s) ==
  /\ P(s).pc = "w_poll"
  /\ IF is_poll[s]
       THEN /\ poll_token' = 0
            /\ is_poll' = [is_poll EXCEPT ![s] = FALSE]
            /\ prod' = [prod EXCEPT ![s].pc = "w_unlock", ![s].poll_wakeup = poll_token]
       ELSE /\ prod' = [prod EXCEPT ![s].pc = "w_unlock"]
            /\ UNCHANGED <<poll_token, is_poll>>
  /\ hist' = [hist EXCEPT
                !.poll.by = IF is_poll[s] /\ poll_token = 1 THEN "prod" ELSE @,
                !.poll.wins = IF is_poll[s] /\ poll_token = 1 THEN @ + 1 ELSE @,
                !.poll.winners = IF is_poll[s] /\ poll_token = 1 THEN @ \cup {s} ELSE @,
                !.poll.swappers = IF is_poll[s] THEN @ \cup {s} ELSE @,
                !.poll.handed = @ \/ (InPoll /\ s \in members),
                !.poll.first = IF InPoll /\ s \in members /\ ScannedAllEmpty
                                    /\ ~hist.poll.handed
                                 THEN s ELSE @]
  /\ UNCHANGED <<size, buffer, n_sem, e_sem, prod_lock, wakeup_sd, wake, cons, iter,
                 members, set>>

\* PRODLOCK_UNLOCK
Write_Unlock(s) ==
  /\ P(s).pc = "w_unlock"
  /\ prod_lock' = [prod_lock EXCEPT ![s] = "free"]
  /\ prod' = [prod EXCEPT ![s].pc = "w_V"]
  /\ UNCHANGED <<size, buffer, n_sem, e_sem, is_poll, poll_token, wakeup_sd, wake,
                 cons, iter, members, set, hist>>

\* mutant: the n_sem branch is dropped, only a polling consumer is woken
Write_V_NoWake(s) ==
  /\ P(s).pc = "w_V"
  /\ n_sem' = [n_sem EXCEPT ![s] = @ + 1]
  /\ prod' = [prod EXCEPT ![s].pc = IF P(s).poll_wakeup # 0 THEN "w_set_wakeup"
                                    ELSE "w_ret"]
  /\ UNCHANGED <<size, buffer, e_sem, is_poll, prod_lock, poll_token, wakeup_sd, wake,
                 cons, iter, members, set, hist>>

\* mutant: the increment of n_sem is missing
Write_V_NoInc(s) ==
  /\ P(s).pc = "w_V"
  /\ prod' = [prod EXCEPT ![s].pc = IF n_sem[s] < 0 THEN "w_wake_input"
                                    ELSE IF P(s).poll_wakeup # 0 THEN "w_set_wakeup"
                                    ELSE "w_ret"]
  /\ UNCHANGED <<size, streamVars, poll_token, wakeup_sd, wake, cons, iter, members,
                 set, hist>>

\* mutant: the test of poll_wakeup is missing, every Write wakes the consumer
Write_V_AlwaysWake(s) ==
  /\ P(s).pc = "w_V"
  /\ n_sem' = [n_sem EXCEPT ![s] = @ + 1]
  /\ prod' = [prod EXCEPT ![s].pc = IF n_sem[s] < 0 THEN "w_wake_input"
                                    ELSE "w_set_wakeup"]
  /\ UNCHANGED <<size, buffer, e_sem, is_poll, prod_lock, poll_token, wakeup_sd, wake,
                 cons, iter, members, set, hist>>

\* mutant: the result of fetch_and_inc is tested with <= 0 in place of < 0
Write_V_TestZero(s) ==
  /\ P(s).pc = "w_V"
  /\ n_sem' = [n_sem EXCEPT ![s] = @ + 1]
  /\ prod' = [prod EXCEPT ![s].pc = IF n_sem[s] <= 0 THEN "w_wake_input"
                                    ELSE IF P(s).poll_wakeup # 0 THEN "w_set_wakeup"
                                    ELSE "w_ret"]
  /\ UNCHANGED <<size, buffer, e_sem, is_poll, prod_lock, poll_token, wakeup_sd, wake,
                 cons, iter, members, set, hist>>

\* quasi V(n_sem): fetch_and_inc, then the choice of the wakeup branch
Write_V(s) ==
  /\ P(s).pc = "w_V"
  /\ n_sem' = [n_sem EXCEPT ![s] = @ + 1]
  /\ prod' = [prod EXCEPT ![s].pc = IF n_sem[s] < 0 THEN "w_wake_input"
                                    ELSE IF P(s).poll_wakeup # 0 THEN "w_set_wakeup"
                                    ELSE "w_ret"]
  /\ UNCHANGED <<size, buffer, e_sem, is_poll, prod_lock, poll_token, wakeup_sd, wake,
                 cons, iter, members, set, hist>>

\* n_sem was -1: LpelTaskUnblock( self, cons)
Write_WakeInput(s) ==
  /\ P(s).pc = "w_wake_input"
  /\ wake' = TaskUnblock(wake, CONS)
  /\ prod' = [prod EXCEPT ![s].pc = "w_ret"]
  /\ hist' = IF InPoll THEN [hist EXCEPT !.poll.wakers = Append(@, s)] ELSE hist
  /\ UNCHANGED <<size, streamVars, poll_token, wakeup_sd, cons, iter, members, set>>

\* mutant: the assignment of wakeup_sd is missing
Write_SetWakeup_Skip(s) ==
  /\ P(s).pc = "w_set_wakeup"
  /\ prod' = [prod EXCEPT ![s].pc = "w_wake_poll"]
  /\ UNCHANGED <<size, streamVars, poll_token, wakeup_sd, wake, cons, iter, members,
                 set, hist>>

\* poll_wakeup: cons->wakeup_sd = sd->stream->cons_sd
Write_SetWakeup(s) ==
  /\ P(s).pc = "w_set_wakeup"
  /\ wakeup_sd' = s
  /\ prod' = [prod EXCEPT ![s].pc = "w_wake_poll"]
  /\ hist' = [hist EXCEPT !.poll.setters = @ \cup {s}]
  /\ UNCHANGED <<size, streamVars, poll_token, wake, cons, iter, members, set>>

\* poll_wakeup: LpelTaskUnblock( self, cons)
Write_WakePoll(s) ==
  /\ P(s).pc = "w_wake_poll"
  /\ wake' = TaskUnblock(wake, CONS)
  /\ prod' = [prod EXCEPT ![s].pc = "w_ret"]
  /\ hist' = [hist EXCEPT !.poll.wakers = Append(@, s)]
  /\ UNCHANGED <<size, streamVars, poll_token, wakeup_sd, cons, iter, members, set>>

\* LpelStreamWrite returns
Write_Return(s) ==
  /\ P(s).pc = "w_ret"
  /\ prod' = [prod EXCEPT ![s] = [IdleProd EXCEPT !.try = P(s).try, !.blk = P(s).blk]]
  /\ UNCHANGED <<size, streamVars, poll_token, wakeup_sd, wake, cons, iter, members,
                 set, hist>>

\* ------------------------------------------------- LpelStreamRead
\* the consumer task calls LpelStreamRead( sd)
CallRead(sd) ==
  /\ cons.pc = "idle"
  /\ cons' = [IdleCons EXCEPT !.pc = "r_P", !.sd = sd, !.op = "Read"]
  /\ hist' = [hist EXCEPT !.poll = NoPoll,
                          !.afterPoll = (cons.op = "Poll" /\ cons.ret = sd)]
  /\ UNCHANGED <<size, streamVars, poll_token, wakeup_sd, wake, prod, iter, members, set>>

\* mutant: the test of the fetch_and_dec result is dropped, an empty stream never blocks
Read_P_NoBlock ==
  /\ cons.pc = "r_P"
  /\ n_sem' = [n_sem EXCEPT ![cons.sd] = @ - 1]
  /\ cons' = [cons EXCEPT !.pc = "r_top"]
  /\ UNCHANGED <<size, buffer, e_sem, is_poll, prod_lock, poll_token, wakeup_sd, wake,
                 prod, iter, members, set, hist>>

\* mutant: the result of fetch_and_dec is tested with < 0 in place of == 0
Read_P_TestNegative ==
  /\ cons.pc = "r_P"
  /\ n_sem' = [n_sem EXCEPT ![cons.sd] = @ - 1]
  /\ cons' = [cons EXCEPT !.pc = IF n_sem[cons.sd] < 0 THEN "r_block" ELSE "r_top",
                          !.blk = (n_sem[cons.sd] < 0)]
  /\ UNCHANGED <<size, buffer, e_sem, is_poll, prod_lock, poll_token, wakeup_sd, wake,
                 prod, iter, members, set, hist>>

\* quasi P(n_sem): fetch_and_dec; the consumer goes to LpelTaskBlock when it was 0
Read_P ==
  /\ cons.pc = "r_P"
  /\ n_sem' = [n_sem EXCEPT ![cons.sd] = @ - 1]
  /\ cons' = [cons EXCEPT !.pc = IF n_sem[cons.sd] = 0 THEN "r_block" ELSE "r_top",
                          !.blk = (n_sem[cons.sd] = 0)]
  /\ UNCHANGED <<size, buffer, e_sem, is_poll, prod_lock, poll_token, wakeup_sd, wake,
                 prod, iter, members, set, hist>>

\* LpelTaskBlock( self, BLOCKED_ON_INPUT) returns
Read_Block ==
  /\ cons.pc = "r_block"
  /\ TaskCanResume(wake, CONS)
  /\ wake' = TaskResume(wake, CONS)
  /\ cons' = [cons EXCEPT !.pc = "r_top"]
  /\ UNCHANGED <<size, streamVars, poll_token, wakeup_sd, prod, iter, members, set, hist>>

\* item = _LpelBufferTop; assert( item != NULL)
Read_Top ==
  /\ cons.pc = "r_top"
  /\ cons' = [cons EXCEPT !.pc = "r_pop", !.item = BufferTop(buffer[cons.sd])]
  /\ hist' = IF BufferTop(buffer[cons.sd]) = NULL THEN Noted(hist, "Top") ELSE hist
  /\ UNCHANGED <<size, streamVars, poll_token, wakeup_sd, wake, prod, iter, members, set>>

\* _LpelBufferPop
Read_Pop ==
  /\ cons.pc = "r_pop"
  /\ buffer' = [buffer EXCEPT ![cons.sd] = BufferPop(@, size)]
  /\ cons' = [cons EXCEPT !.pc = "r_V"]
  /\ UNCHANGED <<size, n_sem, e_sem, is_poll, prod_lock, poll_token, wakeup_sd, wake,
                 prod, iter, members, set, hist>>

\* mutant: the slot is not released, e_sem is left as it was
Read_V_NoInc ==
  /\ cons.pc = "r_V"
  /\ cons' = [cons EXCEPT !.pc = "r_ret"]
  /\ UNCHANGED <<size, streamVars, poll_token, wakeup_sd, wake, prod, iter, members,
                 set, hist>>

\* mutant: e_sem is incremented but the blocked producer is never woken
Read_V_NoWake ==
  /\ cons.pc = "r_V"
  /\ e_sem' = [e_sem EXCEPT ![cons.sd] = @ + 1]
  /\ cons' = [cons EXCEPT !.pc = "r_ret"]
  /\ UNCHANGED <<size, buffer, n_sem, is_poll, prod_lock, poll_token, wakeup_sd, wake,
                 prod, iter, members, set, hist>>

\* quasi V(e_sem): fetch_and_inc; the producer is woken when it was -1
Read_V ==
  /\ cons.pc = "r_V"
  /\ e_sem' = [e_sem EXCEPT ![cons.sd] = @ + 1]
  /\ cons' = [cons EXCEPT !.pc = IF e_sem[cons.sd] < 0 THEN "r_wake" ELSE "r_ret"]
  /\ UNCHANGED <<size, buffer, n_sem, is_poll, prod_lock, poll_token, wakeup_sd, wake,
                 prod, iter, members, set, hist>>

\* e_sem was -1: LpelTaskUnblock( self, prod)
Read_Wake ==
  /\ cons.pc = "r_wake"
  /\ wake' = TaskUnblock(wake, cons.sd)
  /\ cons' = [cons EXCEPT !.pc = "r_ret"]
  /\ UNCHANGED <<size, streamVars, poll_token, wakeup_sd, prod, iter, members, set, hist>>

\* LpelStreamRead returns item
Read_Return ==
  /\ cons.pc = "r_ret"
  /\ cons' = [IdleCons EXCEPT !.op = "Read", !.sd = cons.sd, !.blk = cons.blk,
                              !.ret = cons.item]
  /\ hist' = [hist EXCEPT !.read[cons.sd] = Append(@, cons.item), !.afterPoll = FALSE]
  /\ UNCHANGED <<size, streamVars, poll_token, wakeup_sd, wake, prod, iter, members, set>>

\* ------------------------------------------------- LpelStreamPoll
\* the consumer task calls LpelStreamPoll( set); *set is not NULL
CallPoll ==
  /\ cons.pc = "idle"
  /\ set # NULL
  /\ cons' = [IdleCons EXCEPT !.pc = "p_arm", !.op = "Poll"]
  /\ hist' = [hist EXCEPT !.poll =
                [NoPoll EXCEPT
                   !.nonempty = (\E s \in members : BufferTop(buffer[s]) # NULL)]]
  /\ UNCHANGED <<size, streamVars, poll_token, wakeup_sd, wake, prod, iter, members, set>>

\* atomic_set( &self->poll_token, 1); iter = LpelStreamIterCreate( set)
Poll_Arm ==
  /\ cons.pc = "p_arm"
  /\ poll_token' = 1
  /\ iter' = IterReset(set)
  /\ cons' = [cons EXCEPT !.pc = "p_next"]
  /\ UNCHANGED <<size, streamVars, wakeup_sd, wake, prod, members, set, hist>>

\* scan loop: sd = LpelStreamIterNext( iter); PRODLOCK_LOCK( &s->prod_lock)
Poll_ScanLock ==
  /\ cons.pc = "p_next"
  /\ IterHasNext(iter, set)
  /\ LET it == IterNext(iter, members) IN
       /\ prod_lock[it.cur] = "free"
       /\ prod_lock' = [prod_lock EXCEPT ![it.cur] = "cons"]
       /\ iter' = it
       /\ cons' = [cons EXCEPT !.pc = "p_check", !.sd = it.cur]
  /\ UNCHANGED <<size, buffer, n_sem, e_sem, is_poll, poll_token, wakeup_sd, wake, prod,
                 members, set, hist>>

\* scan loop: LpelStreamIterHasNext is false
Poll_ScanEnd ==
  /\ cons.pc = "p_next"
  /\ ~IterHasNext(iter, set)
  /\ cons' = [cons EXCEPT !.pc = "p_ctx"]
  /\ UNCHANGED <<size, streamVars, poll_token, wakeup_sd, wake, prod, iter, members,
                 set, hist>>

\* mutant: the scan does not look at the buffer and stops at the first stream
Poll_Check_NoTop ==
  /\ cons.pc = "p_check"
  /\ cons' = [cons EXCEPT !.pc = "p_swap"]
  /\ UNCHANGED <<size, streamVars, poll_token, wakeup_sd, wake, prod, iter, members,
                 set, hist>>

\* if ( _LpelBufferTop( &s->buffer) != NULL) ... else { s->is_poll = 1; cnt++; }
Poll_Check ==
  /\ cons.pc = "p_check"
  /\ IF BufferTop(buffer[cons.sd]) # NULL
       THEN /\ cons' = [cons EXCEPT !.pc = "p_swap"]
            /\ is_poll' = is_poll
       ELSE /\ cons' = [cons EXCEPT !.pc = "p_unlock", !.cnt = @ + 1]
            /\ is_poll' = [is_poll EXCEPT ![cons.sd] = TRUE]
  /\ UNCHANGED <<size, buffer, n_sem, e_sem, prod_lock, poll_token, wakeup_sd, wake,
                 prod, iter, members, set, hist>>

\* mutant: do_ctx_switch is not cleared when the consumer wins its own token
Poll_Swap_NoSkip ==
  /\ cons.pc = "p_swap"
  /\ poll_token' = 0
  /\ cons' = [cons EXCEPT !.pc = "p_unlock_break"]
  /\ IF poll_token # 0
       THEN /\ wakeup_sd' = cons.sd
            /\ hist' = [hist EXCEPT !.poll.broke = TRUE, !.poll.by = "cons",
                                    !.poll.wins = @ + 1,
                                    !.poll.winners = @ \cup {CONS},
                                    !.poll.setters = @ \cup {CONS}]
       ELSE /\ wakeup_sd' = wakeup_sd
            /\ hist' = [hist EXCEPT !.poll.broke = TRUE]
  /\ UNCHANGED <<size, streamVars, wake, prod, iter, members, set>>

\* tok = atomic_swap( &self->poll_token, 0); if (tok) { do_ctx_switch = 0; wakeup_sd = sd; }
Poll_Swap ==
  /\ cons.pc = "p_swap"
  /\ poll_token' = 0
  /\ IF poll_token # 0
       THEN /\ cons' = [cons EXCEPT !.pc = "p_unlock_break", !.do_ctx_switch = 0]
            /\ wakeup_sd' = cons.sd
            /\ hist' = [hist EXCEPT !.poll.broke = TRUE, !.poll.by = "cons",
                                    !.poll.wins = @ + 1,
                                    !.poll.winners = @ \cup {CONS},
                                    !.poll.setters = @ \cup {CONS}]
       ELSE /\ cons' = [cons EXCEPT !.pc = "p_unlock_break"]
            /\ wakeup_sd' = wakeup_sd
            /\ hist' = [hist EXCEPT !.poll.broke = TRUE]
  /\ UNCHANGED <<size, streamVars, wake, prod, iter, members, set>>

\* PRODLOCK_UNLOCK at the end of the scan loop body
Poll_Unlock ==
  /\ cons.pc = "p_unlock"
  /\ prod_lock' = [prod_lock EXCEPT ![cons.sd] = "free"]
  /\ cons' = [cons EXCEPT !.pc = "p_next"]
  /\ UNCHANGED <<size, buffer, n_sem, e_sem, is_poll, poll_token, wakeup_sd, wake, prod,
                 iter, members, set, hist>>

\* mutant: the break leaves the scan loop without releasing the lock
Poll_UnlockBreak_Held ==
  /\ cons.pc = "p_unlock_break"
  /\ cons' = [cons EXCEPT !.pc = "p_ctx"]
  /\ UNCHANGED <<size, streamVars, poll_token, wakeup_sd, wake, prod, iter, members,
                 set, hist>>

\* PRODLOCK_UNLOCK; break
Poll_UnlockBreak ==
  /\ cons.pc = "p_unlock_break"
  /\ prod_lock' = [prod_lock EXCEPT ![cons.sd] = "free"]
  /\ cons' = [cons EXCEPT !.pc = "p_ctx"]
  /\ UNCHANGED <<size, buffer, n_sem, e_sem, is_poll, poll_token, wakeup_sd, wake, prod,
                 iter, members, set, hist>>

\* if (do_ctx_switch) the consumer goes to LpelTaskBlock( self, BLOCKED_ON_ANYIN)
Poll_Ctx ==
  /\ cons.pc = "p_ctx"
  /\ cons' = [cons EXCEPT !.pc = IF cons.do_ctx_switch # 0 THEN "p_block" ELSE "p_assert",
                          !.blk = (cons.do_ctx_switch # 0)]
  /\ UNCHANGED <<size, streamVars, poll_token, wakeup_sd, wake, prod, iter, members,
                 set, hist>>

\* LpelTaskBlock( self, BLOCKED_ON_ANYIN) returns
Poll_Block ==
  /\ cons.pc = "p_block"
  /\ TaskCanResume(wake, CONS)
  /\ wake' = TaskResume(wake, CONS)
  /\ cons' = [cons EXCEPT !.pc = "p_assert"]
  /\ UNCHANGED <<size, streamVars, poll_token, wakeup_sd, prod, iter, members, set, hist>>

\* assert( poll_token == 0); LpelStreamIterReset( iter, set)
Poll_Assert ==
  /\ cons.pc = "p_assert"
  /\ iter' = IterReset(set)
  /\ cons' = [cons EXCEPT !.pc = "d_next"]
  /\ hist' = IF poll_token # 0 THEN Noted(hist, "poll_token") ELSE hist
  /\ UNCHANGED <<size, streamVars, poll_token, wakeup_sd, wake, prod, members, set>>

\* disarm loop: s = LpelStreamIterNext( iter)->stream; PRODLOCK_LOCK
Poll_DisarmLock ==
  /\ cons.pc = "d_next"
  /\ IterHasNext(iter, set)
  /\ LET it == IterNext(iter, members) IN
       /\ prod_lock[it.cur] = "free"
       /\ prod_lock' = [prod_lock EXCEPT ![it.cur] = "cons"]
       /\ iter' = it
       /\ cons' = [cons EXCEPT !.pc = "d_clear", !.sd = it.cur]
  /\ UNCHANGED <<size, buffer, n_sem, e_sem, is_poll, poll_token, wakeup_sd, wake, prod,
                 members, set, hist>>

\* disarm loop: LpelStreamIterHasNext is false
Poll_DisarmEnd ==
  /\ cons.pc = "d_next"
  /\ ~IterHasNext(iter, set)
  /\ cons' = [cons EXCEPT !.pc = "p_ret"]
  /\ UNCHANGED <<size, streamVars, poll_token, wakeup_sd, wake, prod, iter, members,
                 set, hist>>

\* mutant: the disarm pass takes the lock but leaves is_poll as it is
Poll_Clear_Skip ==
  /\ cons.pc = "d_clear"
  /\ cons' = [cons EXCEPT !.pc = "d_unlock"]
  /\ UNCHANGED <<size, streamVars, poll_token, wakeup_sd, wake, prod, iter, members,
                 set, hist>>

\* s->is_poll = 0
Poll_Clear ==
  /\ cons.pc = "d_clear"
  /\ is_poll' = [is_poll EXCEPT ![cons.sd] = FALSE]
  /\ cons' = [cons EXCEPT !.pc = "d_unlock"]
  /\ UNCHANGED <<size, buffer, n_sem, e_sem, prod_lock, poll_token, wakeup_sd, wake,
                 prod, iter, members, set, hist>>

\* mutant: the disarm loop stops after its first stream
Poll_DisarmUnlock_BreakFirst ==
  /\ cons.pc = "d_unlock"
  /\ prod_lock' = [prod_lock EXCEPT ![cons.sd] = "free"]
  /\ cons' = [cons EXCEPT !.pc = "p_ret", !.cnt = @ - 1]
  /\ UNCHANGED <<size, buffer, n_sem, e_sem, is_poll, poll_token, wakeup_sd, wake, prod,
                 iter, members, set, hist>>

\* PRODLOCK_UNLOCK; if (--cnt == 0) break
Poll_DisarmUnlock ==
  /\ cons.pc = "d_unlock"
  /\ prod_lock' = [prod_lock EXCEPT ![cons.sd] = "free"]
  /\ cons' = [cons EXCEPT !.pc = IF cons.cnt - 1 = 0 THEN "p_ret" ELSE "d_next",
                          !.cnt = @ - 1]
  /\ UNCHANGED <<size, buffer, n_sem, e_sem, is_poll, poll_token, wakeup_sd, wake, prod,
                 iter, members, set, hist>>

\* mutant: the set handle is moved to the descriptor after wakeup_sd
Poll_Return_Rotate ==
  /\ cons.pc = "p_ret"
  /\ set' = NextInSet(members, wakeup_sd)
  /\ iter' = IterReset(NULL)
  /\ cons' = [IdleCons EXCEPT !.op = "Poll", !.blk = cons.blk, !.ret = wakeup_sd]
  /\ UNCHANGED <<size, streamVars, poll_token, wakeup_sd, wake, prod, members, hist>>

\* *set = self->wakeup_sd; return self->wakeup_sd
Poll_Return ==
  /\ cons.pc = "p_ret"
  /\ set' = wakeup_sd
  /\ iter' = IterReset(NULL)
  /\ cons' = [IdleCons EXCEPT !.op = "Poll", !.blk = cons.blk, !.ret = wakeup_sd]
  /\ UNCHANGED <<size, streamVars, poll_token, wakeup_sd, wake, prod, members, hist>>

\* ------------------------------------------------- specification
\* the items a producer writes are numbered in the order of its calls; hist.budget
\* is the number of times the producers may still enter LpelStreamWrite
NextItem(s) == Len(hist.written[s]) + 1

Producer(s) ==
  \/ CallWrite(s, NextItem(s))
  \/ CallTryWrite(s, NextItem(s))
  \/ Write_P(s)
  \/ Write_Block(s)
  \/ Write_Lock(s)
  \/ Write_Put(s)
  \/ Write_Poll(s)
  \/ Write_Unlock(s)
  \/ Write_V(s)
  \/ Write_WakeInput(s)
  \/ Write_SetWakeup(s)
  \/ Write_WakePoll(s)
  \/ Write_Return(s)

Reader ==
  \/ \E sd \in Streams : CallRead(sd)
  \/ Read_P
  \/ Read_Block
  \/ Read_Top
  \/ Read_Pop
  \/ Read_V
  \/ Read_Wake
  \/ Read_Return

Poller ==
  \/ CallPoll
  \/ Poll_Arm
  \/ Poll_ScanLock
  \/ Poll_ScanEnd
  \/ Poll_Check
  \/ Poll_Swap
  \/ Poll_Unlock
  \/ Poll_UnlockBreak
  \/ Poll_Ctx
  \/ Poll_Block
  \/ Poll_Assert
  \/ Poll_DisarmLock
  \/ Poll_DisarmEnd
  \/ Poll_Clear
  \/ Poll_DisarmUnlock
  \/ Poll_Return

Next ==
  \/ \E s \in Streams : Producer(s)
  \/ Reader
  \/ Poller

Spec == Init /\ [][Next]_vars

\* A task that can run keeps running (its worker executes it until it suspends or
\* returns), a task made ready by LpelTaskUnblock is dispatched again, and a task
\* waiting for a prod_lock obtains it.  Calling Read, Write, TryWrite or Poll is up
\* to the task's code and is not forced.
ProducerRun(s) ==
  \/ Write_P(s)
  \/ Write_Block(s)
  \/ Write_Put(s)
  \/ Write_Poll(s)
  \/ Write_Unlock(s)
  \/ Write_V(s)
  \/ Write_WakeInput(s)
  \/ Write_SetWakeup(s)
  \/ Write_WakePoll(s)
  \/ Write_Return(s)

ConsumerRun ==
  \/ Read_P
  \/ Read_Block
  \/ Read_Top
  \/ Read_Pop
  \/ Read_V
  \/ Read_Wake
  \/ Read_Return
  \/ Poll_Arm
  \/ Poll_ScanEnd
  \/ Poll_Check
  \/ Poll_Swap
  \/ Poll_Unlock
  \/ Poll_UnlockBreak
  \/ Poll_Ctx
  \/ Poll_Block
  \/ Poll_Assert
  \/ Poll_DisarmEnd
  \/ Poll_Clear
  \/ Poll_DisarmUnlock
  \/ Poll_Return

Fairness ==
  /\ \A s \in Streams : WF_vars(ProducerRun(s)) /\ SF_vars(Write_Lock(s))
  /\ WF_vars(ConsumerRun)
  /\ SF_vars(Poll_ScanLock)
  /\ SF_vars(Poll_DisarmLock)

\* the runs in which progress is checked: capacity 1, both streams in the set,
\* LiveWrites entries into LpelStreamWrite
LiveInit ==
  /\ StreamCreate
  /\ size = 1
  /\ poll_token = 0
  /\ wakeup_sd = NULL
  /\ wake = [t \in Tasks |-> 0]
  /\ prod = [s \in Streams |-> IdleProd]
  /\ cons = IdleCons
  /\ iter = IterReset(NULL)
  /\ members = Streams
  /\ set \in members
  /\ hist = [HistInit EXCEPT !.budget = LiveWrites]

FairSpec == LiveInit /\ [][Next]_vars /\ Fairness

\* ------------------------------------------------- properties
\* the consumer is inside LpelStreamRead on stream s
InRead(s) == cons.op = "Read" /\ cons.pc # "idle" /\ cons.sd = s

\* the consumer is in a Read on s that has not yet released its slot
ReadPending(s) == InRead(s) /\ cons.pc \in {"r_P", "r_block", "r_top", "r_pop", "r_V", "r_wake"}

\* LpelStreamPoll has just returned and the consumer has not called anything since
PollReturned == cons.op = "Poll" /\ cons.pc = "idle"

\* the consumer is in LpelStreamPoll, past the point where it may suspend
PastSuspend == cons.pc \in {"p_assert", "d_next", "d_clear", "d_unlock", "p_ret"}

\* a stream is at quiescence: its producer is outside Write, the consumer is outside
\* Read on it, hence nobody is blocked on it
Quiescent(s) == P(s).pc = "idle" /\ ~InRead(s)

IsPrefix(a, b) == Len(a) <= Len(b) /\ \A i \in 1..Len(a) : a[i] = b[i]

\* C1: on every stream the items returned by Read are, in order, a prefix of the
\* items written: nothing is lost, duplicated or reordered.
C1_Fifo == \A s \in Streams : IsPrefix(hist.read[s], hist.written[s])

C1_Witness == \E s \in Streams : Len(hist.read[s]) = MaxWrites

\* C2: n_sem + e_sem >= -1 on every stream, and both counters stay in -1..C.
C2_SemRange ==
  \A s \in Streams :
    /\ n_sem[s] + e_sem[s] >= -1
    /\ n_sem[s] \in -1..size
    /\ e_sem[s] \in -1..size

C2_Witness == \E s \in Streams : n_sem[s] + e_sem[s] = -1 /\ n_sem[s] = -1

\* C3: at quiescence of a stream n_sem is the number of buffered items and e_sem
\* the number of free slots, so n_sem + e_sem = C.
C3_Quiescence ==
  \A s \in Streams :
    Quiescent(s) => /\ n_sem[s] = Filled(buffer[s])
                    /\ e_sem[s] = size - Filled(buffer[s])
                    /\ n_sem[s] + e_sem[s] = size

C3_Witness ==
  \E s \in Streams :
    /\ Quiescent(s)
    /\ Len(hist.written[s]) = MaxWrites
    /\ Len(hist.read[s]) = MaxWrites
    /\ n_sem[s] = 0
    /\ e_sem[s] = size

\* a producer in Block(BLOCKED_ON_OUTPUT) has not deposited its item; while no wakeup
\* is pending or about to be issued e_sem is -1; at most one Unblock is pending for
\* a producer and none is left over when Write returns; a resumed producer finds space
C4_Blocked ==
  \A s \in Streams :
    /\ wake[s] \in 0..1
    /\ P(s).pc = "idle" => wake[s] = 0
    /\ P(s).pc = "w_block"
         => /\ P(s).blk
            /\ Len(hist.written[s]) = P(s).item - 1
            /\ Filled(buffer[s]) < size => (InRead(s) \/ wake[s] = 1)
            /\ e_sem[s] >= -1
            /\ (e_sem[s] = -1) <=> (wake[s] = 0 /\ ~(InRead(s) /\ cons.pc = "r_wake"))
    /\ (InRead(s) /\ cons.pc = "r_wake") => (P(s).pc = "w_block" /\ wake[s] = 0)
    /\ (P(s).blk /\ P(s).pc \in {"w_lock", "w_put"}) => BufferIsSpace(buffer[s])

\* the step that decrements e_sem suspends the producer exactly when e_sem was 0,
\* and deposits nothing
C4_Step ==
  [][\A s \in Streams :
       (P(s).pc = "w_P" /\ P(s)'.pc # "w_P")
         => IF e_sem[s] > 0
              THEN P(s)'.pc = "w_lock" /\ ~P(s)'.blk
              ELSE P(s)'.pc = "w_block" /\ buffer' = buffer]_vars

\* a blocked producer whose consumer is reading the stream completes its Write
C4_Live ==
  \A s \in Streams : (P(s).pc = "w_block" /\ ReadPending(s)) ~> (P(s).pc = "idle")

\* C4: a Write that finds e_sem = 0 calls Block(BLOCKED_ON_OUTPUT) with its item not
\* yet deposited; the next Read to release a slot sees e_sem = -1 and issues the
\* single Unblock, after which the item is deposited; a Write that finds e_sem > 0
\* does not suspend; a blocked producer whose consumer reads completes its Write.
C4_ProducerBlocks == []C4_Blocked /\ C4_Step /\ C4_Live

C4_Witness ==
  \E s \in Streams :
    /\ P(s).blk /\ P(s).pc = "w_ret"
    /\ hist.written[s][Len(hist.written[s])] = P(s).item
    /\ Len(hist.read[s]) >= 1

\* C5: a Read that finds n_sem = 0 calls Block(BLOCKED_ON_INPUT); while it waits with
\* no wakeup pending or about to be issued, n_sem is -1, so the next Write owns the
\* wakeup; at most one Unblock is ever pending for the consumer and none is left
\* over when an operation returns; the resumed Read returns the item of the Write
\* that woke it.
C5_NoLostWakeup ==
  /\ wake[CONS] \in 0..1
  /\ cons.pc = "idle" => wake[CONS] = 0
  /\ \A s \in Streams :
       /\ (InRead(s) /\ cons.pc = "r_block")
            => /\ cons.blk
               /\ n_sem[s] >= -1
               /\ (n_sem[s] = -1) <=> (wake[CONS] = 0 /\ P(s).pc # "w_wake_input")
               /\ (wake[CONS] = 1 \/ P(s).pc = "w_wake_input")
                    => Len(hist.written[s]) > Len(hist.read[s])
       /\ P(s).pc = "w_wake_input" => (InRead(s) /\ cons.pc = "r_block" /\ wake[CONS] = 0)
       /\ (InRead(s) /\ cons.pc = "r_ret" /\ cons.blk)
            => cons.item = hist.written[s][Len(hist.read[s]) + 1]

C5_Witness ==
  \E s \in Streams :
    /\ InRead(s) /\ cons.pc = "r_ret" /\ cons.blk
    /\ cons.item = hist.written[s][Len(hist.written[s])]
    /\ P(s).pc = "w_ret"

\* C6: the descriptor Poll returns belongs to the polled set and its stream's buffer
\* head is not NULL at the return.
C6_PollReturnsReadable ==
  /\ cons.pc = "p_ret" => /\ wakeup_sd \in members
                          /\ BufferTop(buffer[wakeup_sd]) # NULL
  /\ PollReturned => /\ cons.ret \in members
                     /\ BufferTop(buffer[cons.ret]) # NULL

C6_Witness ==
  /\ PollReturned /\ cons.blk
  /\ cons.ret \in members
  /\ \E s \in Streams \ members : BufferTop(buffer[s]) # NULL

\* C7: when Poll returns, is_poll is false on every stream of the set, whichever way
\* the scan ended.
C7_PollDisarmed ==
  (cons.pc = "p_ret" \/ PollReturned) => \A s \in members : ~is_poll[s]

\* Poll has suspended after marking every stream of a set of two or more
C7_Witness ==
  /\ PollReturned /\ cons.blk /\ ~hist.poll.broke
  /\ Cardinality(members) >= 2

\* C8 as stated: after Poll returns, *set is the descriptor that follows the returned
\* one in the cyclic order of the set.
C8_SetIsSuccessor == PollReturned => set = NextInSet(members, cons.ret)

\* C8 amended: after Poll returns descriptor sd_k, *set is sd_k itself, the returned
\* descriptor, and not the descriptor that follows it when the set has two or more.
C8_SetIsReturned ==
  PollReturned => /\ set = cons.ret
                  /\ Cardinality(members) >= 2 => set # NextInSet(members, cons.ret)

C8_Witness ==
  /\ PollReturned
  /\ Cardinality(members) >= 2
  /\ set = cons.ret
  /\ NextInSet(members, cons.ret) # cons.ret

\* C9 as stated: a Poll called while some stream of the set holds an item never
\* reaches Block(BLOCKED_ON_ANYIN).
C9_NeverSuspends == (cons.op = "Poll" /\ hist.poll.nonempty) => ~cons.blk

\* C9 amended: a Poll called while some stream of the set holds an item always leaves
\* its scan by the break, and reaches Block(BLOCKED_ON_ANYIN) only when a producer
\* took the poll token before the consumer's own swap.
C9_SuspendsOnlyIfProducerWon ==
  (cons.op = "Poll" /\ hist.poll.nonempty) =>
     /\ (cons.pc \in {"p_ctx", "p_block", "idle"} \/ PastSuspend) => hist.poll.broke
     /\ cons.blk => hist.poll.by = "prod"
     /\ (hist.poll.by = "cons" /\ (PastSuspend \/ cons.pc = "idle")) => ~cons.blk

C9_Witness == PollReturned /\ hist.poll.nonempty /\ ~cons.blk /\ hist.poll.by = "cons"

\* after a scan that found every stream empty all streams are marked and the token
\* is armed; the first Write to pass its locked section after such a scan takes the
\* token, and Poll resumes with that stream's descriptor and returns it
C10_Marked ==
  /\ (ScannedAllEmpty /\ AllEmpty)
       => /\ \A s \in members : is_poll[s]
          /\ cons.do_ctx_switch # 0
          /\ poll_token = 1
          /\ ~hist.poll.handed
  /\ hist.poll.first # NULL => (hist.poll.by = "prod" /\ poll_token = 0)
  /\ (hist.poll.first # NULL /\ PastSuspend) => (cons.blk /\ wakeup_sd = hist.poll.first)
  /\ (PollReturned /\ hist.poll.first # NULL) => (cons.blk /\ cons.ret = hist.poll.first)

\* a consumer suspended in Poll returns once a Write has deposited on a stream of the
\* set, with the descriptor of the first such Write after an all-empty scan
C10_Live ==
  /\ \A s \in Streams :
       (cons.pc = "p_block" /\ hist.poll.first = s) ~> (PollReturned /\ cons.ret = s)
  /\ (cons.pc = "p_block" /\ hist.poll.handed) ~> PollReturned

\* C10: when the scan finds every stream of the set empty, every stream is marked
\* is_poll and the consumer goes to Block(BLOCKED_ON_ANYIN); the first Write after
\* that to a stream s of the set unblocks it with wakeup_sd = s's descriptor, which
\* Poll returns; a consumer suspended in Poll does not stay blocked once a Write has
\* deposited on a stream of the set.
C10_PollWakes == []C10_Marked /\ C10_Live

C10_Witness ==
  /\ PollReturned /\ cons.blk
  /\ Cardinality(members) >= 2
  /\ hist.poll.first = cons.ret
  /\ P(cons.ret).pc = "idle"

\* C11: in every Poll exactly one party finds poll_token = 1 in its atomic swap, the
\* consumer in its scan or one producer in Write; only that party assigns wakeup_sd;
\* at most one Unblock is issued to the consumer, by that producer; poll_token is 0
\* when the consumer goes on past the suspend step.
C11_TokenWonOnce ==
  /\ hist.poll.wins <= 1
  /\ Cardinality(hist.poll.winners) = hist.poll.wins
  /\ hist.poll.winners \subseteq ({CONS} \cup hist.poll.swappers)
  /\ hist.poll.setters \subseteq hist.poll.winners
  /\ Len(hist.poll.wakers) <= 1
  /\ \A i \in 1..Len(hist.poll.wakers) : hist.poll.wakers[i] \in hist.poll.winners
  /\ CONS \in hist.poll.winners => hist.poll.wakers = << >>
  /\ (PastSuspend \/ PollReturned) => (hist.poll.wins = 1 /\ poll_token = 0)
  /\ "poll_token" \notin hist.failed

C11_Witness ==
  \E s \in Streams :
    /\ PollReturned /\ cons.blk
    /\ hist.poll.winners = {s}
    /\ hist.poll.setters = {s}
    /\ hist.poll.wakers = <<s>>

\* the oldest item written to s and not yet returned by Read is at the head of the buffer
HeadIsNextUnread(s) ==
  /\ Len(hist.written[s]) > Len(hist.read[s])
  /\ BufferTop(buffer[s]) = hist.written[s][Len(hist.read[s]) + 1]

\* C12: when the producers of all the streams of a polled set of two or more have
\* written under the poll (each found is_poll set), exactly one of them found the
\* token; every other one neither assigns wakeup_sd nor issues an Unblock; Poll
\* returns the winner's descriptor after a single Unblock; the items of the others
\* stay at the head of their buffers, and a Read returns the oldest unread item.
C12_OneWinner ==
  /\ (hist.poll.swappers = members /\ Cardinality(members) >= 2) =>
       /\ hist.poll.wins = 1
       /\ hist.poll.winners \subseteq hist.poll.swappers
       /\ \A s \in hist.poll.swappers \ hist.poll.winners :
            /\ s \notin hist.poll.setters
            /\ \A i \in 1..Len(hist.poll.wakers) : hist.poll.wakers[i] # s
            /\ P(s).pc \notin {"w_set_wakeup", "w_wake_poll", "w_wake_input"}
       /\ PollReturned =>
            /\ hist.poll.winners = {cons.ret}
            /\ hist.poll.wakers = <<cons.ret>>
            /\ \A s \in members \ {cons.ret} : HeadIsNextUnread(s)
  /\ \A s \in Streams :
       (InRead(s) /\ cons.pc \in {"r_pop", "r_V", "r_wake", "r_ret"}
          /\ "Top" \notin hist.failed)
         => cons.item = hist.written[s][Len(hist.read[s]) + 1]

C12_Witness ==
  /\ PollReturned
  /\ Cardinality(members) >= 2
  /\ hist.poll.swappers = members
  /\ \A s \in members : P(s).pc = "idle"

\* C13: a TryWrite call never reaches Block(BLOCKED_ON_OUTPUT).
C13_TryWriteNeverBlocks == \A s \in Streams : P(s).try => P(s).pc # "w_block"

\* a step in which the producer of s calls TryWrite
TryWriteCall(s) ==
  /\ P(s).pc = "idle" /\ P(s)' # P(s)
  /\ P(s)'.try
  /\ (P(s)'.pc = "w_P" \/ (P(s)'.pc = "idle" /\ P(s)'.ret = -1))

\* C14: a TryWrite on a stream whose buffer has no space returns -1 and changes
\* nothing: buffer, n_sem, e_sem, is_poll, prod_lock, poll_token, wakeup_sd and the
\* pending wakeups stay as they were, and the producer is back outside Write; a
\* TryWrite returns -1 only when the buffer has no space.
C14_FullNoEffect ==
  [][\A s \in Streams :
       /\ (TryWriteCall(s) /\ P(s)'.ret = -1)
            => /\ ~BufferIsSpace(buffer[s])
               /\ UNCHANGED <<size, buffer, n_sem, e_sem, is_poll, prod_lock, poll_token,
                               wakeup_sd, wake, cons, iter, members, set>>
               /\ hist'.written = hist.written
               /\ \A x \in Streams \ {s} : prod'[x] = prod[x]
       /\ (TryWriteCall(s) /\ ~BufferIsSpace(buffer[s]))
            => (P(s)'.pc = "idle" /\ P(s)'.ret = -1)]_vars

C14_Witness ==
  \E s \in Streams :
    /\ P(s).pc = "idle" /\ P(s).try /\ P(s).ret = -1
    /\ ~BufferIsSpace(buffer[s])
    /\ n_sem[s] = size /\ e_sem[s] = 0
    /\ InPoll

\* the consumer is in LpelStreamPoll between arming its token and the end of the
\* disarm pass
PollArmed ==
  /\ cons.op = "Poll"
  /\ cons.pc \in {"p_next", "p_check", "p_swap", "p_unlock", "p_unlock_break", "p_ctx",
                  "p_block", "p_assert", "d_next", "d_clear", "d_unlock"}

\* C15: whenever is_poll is set on a stream, the consumer is inside a Poll on a set
\* containing that stream, after arming its token and before the end of the disarm
\* pass; a producer holding a won token assigns wakeup_sd and unblocks while the
\* consumer is still in that Poll, not beyond its suspend step.
C15_IsPollOnlyInPoll ==
  \A s \in Streams :
    /\ is_poll[s] => (PollArmed /\ s \in members)
    /\ (P(s).poll_wakeup # 0 /\ P(s).pc \in {"w_unlock", "w_V", "w_set_wakeup", "w_wake_poll"})
         => /\ InPoll /\ s \in members
            /\ cons.pc \in {"p_next", "p_check", "p_swap", "p_unlock", "p_unlock_break",
                            "p_ctx", "p_block"}
    /\ P(s).pc \in {"w_set_wakeup", "w_wake_poll"} => P(s).poll_wakeup # 0

C15_Witness ==
  /\ cons.pc = "p_block"
  /\ Cardinality(members) >= 2
  /\ \A s \in members : is_poll[s]

\* the producer of s is in the deposit-and-handoff section of LpelStreamWrite
InWriteSection(s) == P(s).pc \in {"w_put", "w_poll", "w_unlock"}

\* the consumer is in a register or deregister section of LpelStreamPoll on stream s
InPollSection(s) ==
  /\ cons.op = "Poll" /\ cons.sd = s
  /\ cons.pc \in {"p_check", "p_swap", "p_unlock", "p_unlock_break", "d_clear", "d_unlock"}

\* C16: a prod_lock is held exactly while its producer is in the deposit-and-handoff
\* section of Write or the consumer is in a register/deregister section of Poll on
\* that stream; hence no lock is held by a task that is in, or about to call, Block,
\* Unblock or a monitoring callback, nor after the break of the Poll scan.
C16_NoLockAcrossBlock ==
  /\ \A s \in Streams :
       /\ (prod_lock[s] = "prod") <=> InWriteSection(s)
       /\ (prod_lock[s] = "cons") <=> InPollSection(s)
       /\ P(s).pc \in {"w_block", "w_V", "w_wake_input", "w_set_wakeup", "w_wake_poll",
                       "w_ret", "idle"} => prod_lock[s] # "prod"
  /\ cons.pc \in {"r_block", "r_wake", "r_ret", "p_ctx", "p_block", "p_assert", "p_ret",
                  "idle"} => \A s \in Streams : prod_lock[s] # "cons"

C16_Witness ==
  /\ cons.pc = "p_block" /\ hist.poll.broke
  /\ \E s \in Streams : P(s).pc = "w_block"
  /\ \A s \in Streams : prod_lock[s] = "free"

\* C17: the assertion of Read never fails: when the consumer reaches the consume
\* step, directly or after Block(BLOCKED_ON_INPUT), the head of the buffer is not
\* NULL, and the item it takes is not NULL.
C17_ReadAssertHolds ==
  /\ "Top" \notin hist.failed
  /\ cons.pc = "r_top" => BufferTop(buffer[cons.sd]) # NULL
  /\ cons.pc \in {"r_pop", "r_V", "r_wake", "r_ret"} => cons.item # NULL

C17_Witness ==
  /\ cons.pc = "r_top" /\ cons.blk
  /\ BufferTop(buffer[cons.sd]) # NULL
  /\ n_sem[cons.sd] = 0

\* items written to s and not yet taken out of the buffer by the consumer
Unconsumed(s) ==
  Len(hist.written[s]) - Len(hist.read[s])
    - (IF InRead(s) /\ cons.pc \in {"r_V", "r_wake", "r_ret"} THEN 1 ELSE 0)

\* C18: the assertion of Write never fails: when the producer reaches the deposit
\* step, directly or after Block(BLOCKED_ON_OUTPUT), the buffer has space; the buffer
\* holds every item written and not yet consumed, never more than C.
C18_WriteAssertHolds ==
  /\ "IsSpace" \notin hist.failed
  /\ \A s \in Streams :
       /\ P(s).pc = "w_put" => BufferIsSpace(buffer[s])
       /\ Filled(buffer[s]) = Unconsumed(s)
       /\ Unconsumed(s) <= size

C18_Witness ==
  \E s \in Streams :
    /\ P(s).pc = "w_poll" /\ P(s).blk
    /\ Filled(buffer[s]) = size
    /\ size >= 2

\* C19: a producer that won the poll token never finds n_sem = -1 at its increment,
\* so it never takes the BLOCKED_ON_INPUT branch; it assigns wakeup_sd its stream's
\* descriptor before its single Unblock; a consumer resumed from
\* Block(BLOCKED_ON_ANYIN) finds the wakeup_sd assigned during this Poll by the winner.
C19_WinnerSetsWakeup ==
  /\ \A s \in Streams :
       /\ (P(s).pc = "w_V" /\ P(s).poll_wakeup # 0) => n_sem[s] >= 0
       /\ P(s).pc = "w_wake_input" => P(s).poll_wakeup = 0
       /\ P(s).pc = "w_wake_poll" => (P(s).poll_wakeup # 0 /\ wakeup_sd = s)
  /\ ((PastSuspend \/ PollReturned) /\ cons.blk)
       => /\ hist.poll.setters = hist.poll.winners
          /\ hist.poll.setters = {wakeup_sd}
          /\ hist.poll.wakers = <<wakeup_sd>>
          /\ wakeup_sd \in members

C19_Witness ==
  /\ cons.pc = "p_assert" /\ cons.blk
  /\ wakeup_sd # NULL /\ wakeup_sd # set
  /\ P(wakeup_sd).pc = "w_ret" /\ P(wakeup_sd).poll_wakeup # 0
  /\ n_sem[wakeup_sd] >= 1

\* the producer of s has put its item into the buffer and not yet incremented n_sem
PutNotCounted(s) == P(s).pc \in {"w_poll", "w_unlock", "w_V"}

\* C20 as stated: n_sem of the returned stream is at least 1 when Poll returns, and
\* a Read called next on the returned descriptor never reaches Block(BLOCKED_ON_INPUT).
C20_ReadAfterPollNeverSuspends ==
  /\ PollReturned => n_sem[cons.ret] >= 1
  /\ hist.afterPoll => cons.pc # "r_block"

\* C20 amended: when Poll returns, n_sem of the returned stream is at least 1 unless
\* the producer of the item at the head is still between its Put and its n_sem
\* increment, and then it is 0; a Read called next on the returned descriptor
\* suspends only in that case, and the wakeup is then pending or that producer is
\* about to issue it; the Read takes a non-NULL item.
C20_ReadAfterPollSuspendsOnlyBeforeV ==
  /\ PollReturned => /\ n_sem[cons.ret] >= 0
                     /\ n_sem[cons.ret] = 0 => PutNotCounted(cons.ret)
  /\ (hist.afterPoll /\ cons.pc = "r_P" /\ n_sem[cons.sd] <= 0)
       => (n_sem[cons.sd] = 0 /\ PutNotCounted(cons.sd))
  /\ (hist.afterPoll /\ cons.pc = "r_block")
       => \/ n_sem[cons.sd] = -1 /\ PutNotCounted(cons.sd)
          \/ P(cons.sd).pc = "w_wake_input"
          \/ wake[CONS] = 1
  /\ (hist.afterPoll /\ cons.pc \in {"r_pop", "r_V", "r_wake", "r_ret"}) => cons.item # NULL

C20_Witness ==
  /\ hist.afterPoll /\ cons.pc = "r_ret" /\ cons.blk
  /\ cons.item # NULL
  /\ P(cons.sd).pc = "idle"

====
